---- MODULE Spec2Model ----
(***************************************************************************)
(* Model of the Taproot commitment and spend engine of src/src/test.js     *)
(* (the file that carries src/service.js): tagged hashing, leaf and branch *)
(* hashes, merkle root, control block, private-key tweak, construction of  *)
(* the TaprootInfo aggregate and the three spend operations.               *)
(*                                                                         *)
(* Byte strings (Buffers) are sequences over 0..255 with their real        *)
(* lengths (32-byte x-only keys, 33-byte compressed keys, 64-byte          *)
(* signatures).  The external collaborators are scaled down: SHA-256 is a  *)
(* small polynomial hash padded to 32 bytes, and secp256k1 is the curve    *)
(* y^2 = x^3 + 7 over F_43, which has prime order 31.                      *)
(***************************************************************************)
EXTENDS Integers, Sequences, FiniteSets, TLC

VARIABLES
  height,    \* block count of the regtest node
  privKeys,  \* the caller's three signing scalars (privKeys of the test)
  info,      \* the TaprootInfo aggregate the caller holds, or NoInfo
  last       \* the most recent call: operation, arguments, outcome

vars == <<height, privKeys, info, last>>

(***************************************************************************)
(* Bounds of the model.                                                    *)
(***************************************************************************)
MaxLeaves == 4

MaxHeight == 3

MaxDelta == 2

(***************************************************************************)
(* Byte strings.                                                           *)
(***************************************************************************)
HashLen == 32

Zeros(n) == [i \in 1..n |-> 0]

EmptyBuf == <<>>

\* Buffer.prototype.slice(from, to) with 0-based, end-exclusive indexes.
Slice(b, from, to) ==
  LET hi == IF to > Len(b) THEN Len(b) ELSE to
  IN IF from >= hi THEN <<>> ELSE SubSeq(b, from + 1, hi)

RECURSIVE ConcatAll(_)
\* Buffer.concat(list)
ConcatAll(list) ==
  IF list = <<>> THEN <<>> ELSE Head(list) \o ConcatAll(Tail(list))

\* Buffer.compare(a, b): byte-lexicographic, -1, 0 or 1.
BufferCompare(a, b) ==
  LET n == IF Len(a) < Len(b) THEN Len(a) ELSE Len(b)
      diff == {i \in 1..n : a[i] # b[i]}
  IN IF diff = {}
     THEN (IF Len(a) < Len(b) THEN -1 ELSE IF Len(a) > Len(b) THEN 1 ELSE 0)
     ELSE LET i == CHOOSE k \in diff : \A j \in diff : k <= j
          IN IF a[i] < b[i] THEN -1 ELSE 1

RECURSIVE BitOr(_, _)
\* a | b on non-negative integers.
BitOr(a, b) ==
  IF a = 0 THEN b
  ELSE IF b = 0 THEN a
  ELSE 2 * BitOr(a \div 2, b \div 2) + (IF a % 2 = 1 \/ b % 2 = 1 THEN 1 ELSE 0)

RECURSIVE BytesModUpTo(_, _, _)
\* The big-endian value of the first n bytes of b, modulo m.
BytesModUpTo(b, n, m) ==
  IF n = 0 THEN 0 ELSE (BytesModUpTo(b, n - 1, m) * 256 + b[n]) % m

\* The big-endian integer value of a buffer, modulo m (m < 2^22).
BytesMod(b, m) == BytesModUpTo(b, Len(b), m)

\* 32-byte big-endian encoding of v < 2^24.
Encode32(v) ==
  Zeros(HashLen - 3) \o <<(v \div 65536) % 256, (v \div 256) % 256, v % 256>>

(***************************************************************************)
(* Tagged hash (bitcoin.crypto.taggedHash).  SHA256(tag) || SHA256(tag) is *)
(* the per-tag seed, the message is absorbed byte by byte, the digest is   *)
(* 32 bytes.                                                               *)
(***************************************************************************)
HashModulus == 46337

HashMultiplier == 251

TagSeed(tag) ==
  CASE tag = "TapLeaf" -> 10007
    [] tag = "TapBranch" -> 20011
    [] tag = "TapTweak" -> 30011
    [] tag = "TapSighash" -> 40009
    [] OTHER -> 5003

RECURSIVE HashPower(_)
\* HashMultiplier^e mod HashModulus, by squaring.
HashPower(e) ==
  IF e = 0 THEN 1
  ELSE LET h == HashPower(e \div 2)
           sq == (h * h) % HashModulus
       IN IF e % 2 = 1 THEN (sq * HashMultiplier) % HashModulus ELSE sq

\* The powers a message of at most MaxMsgLen bytes needs, computed once.
MaxMsgLen == 255

HashPowerTable == [e \in 0..MaxMsgLen |-> HashPower(e)]

RECURSIVE HashAbsorb(_, _, _)
\* The contribution of msg[lo..hi] to the digest state: absorbing a byte
\* multiplies the state by HashMultiplier and adds the byte plus one.
HashAbsorb(msg, lo, hi) ==
  IF lo > hi THEN 0
  ELSE IF lo = hi THEN ((msg[lo] + 1) * HashPowerTable[Len(msg) - lo]) % HashModulus
  ELSE LET mid == (lo + hi) \div 2
       IN (HashAbsorb(msg, lo, mid) + HashAbsorb(msg, mid + 1, hi)) % HashModulus

taggedHash(tag, msg) ==
  Encode32((TagSeed(tag) * HashPowerTable[Len(msg)] + HashAbsorb(msg, 1, Len(msg))) % HashModulus)

(***************************************************************************)
(* Leaf and branch hashes, merkle root.                                    *)
(***************************************************************************)
LeafVersion == 192

\* compact_size of the transaction format (1 byte below 0xFD).
CompactSize(n) ==
  IF n < 253 THEN <<n>> ELSE <<253, n % 256, n \div 256>>

\* The leaf hash of the transaction codec (bitcoinjs-lib tapleafHash, used by
\* payments.p2tr): version byte, compact_size of the length, script.
codecLeafHash(scriptBuffer) ==
  taggedHash("TapLeaf", <<LeafVersion>> \o CompactSize(Len(scriptBuffer)) \o scriptBuffer)

tapLeafHash(scriptBuffer) ==
  taggedHash("TapLeaf", ConcatAll(<< <<LeafVersion>>, scriptBuffer >>))

\* Variant of tapBranchHash that hashes the children in argument order
\* (what the comparison in tapBranchHash is there to prevent).
tapBranchHashPositional(a, b) == taggedHash("TapBranch", a \o b)

tapBranchHash(a, b) ==
  IF BufferCompare(a, b) = -1
  THEN taggedHash("TapBranch", ConcatAll(<<a, b>>))
  ELSE taggedHash("TapBranch", ConcatAll(<<b, a>>))

RECURSIVE PairLayer(_, _)
\* The inner for loop: pair adjacent hashes from 0-based position i on,
\* propagating an unpaired trailing hash.
PairLayer(current, i) ==
  IF i >= Len(current) THEN <<>>
  ELSE IF i + 1 = Len(current) THEN <<current[i + 1]>>
  ELSE <<tapBranchHash(current[i + 1], current[i + 2])>> \o PairLayer(current, i + 2)

RECURSIVE ReduceLayers(_)
\* The while loop of computeMerkleRootFromLeafHashes.
ReduceLayers(current) ==
  IF Len(current) > 1 THEN ReduceLayers(PairLayer(current, 0)) ELSE current[1]

computeMerkleRootFromLeafHashes(leafHashArr) ==
  IF Len(leafHashArr) = 0 THEN EmptyBuf ELSE ReduceLayers(leafHashArr)

computeMerkleRoot(scriptLeaves) ==
  LET leafHashes == [i \in 1..Len(scriptLeaves) |-> tapLeafHash(scriptLeaves[i])]
  IN IF Len(leafHashes) = 1 THEN EmptyBuf
     ELSE computeMerkleRootFromLeafHashes(leafHashes)

(***************************************************************************)
(* Control block.                                                          *)
(***************************************************************************)
Thrown(msg) == [kind |-> "throw", msg |-> msg]

Returned(v) == [kind |-> "ok", value |-> v]

RECURSIVE MerklePathRightOnly(_, _)
\* Variant of MerklePath that always takes the sibling to the right (the
\* parity test on idx left out).
MerklePathRightOnly(layer, idx) ==
  IF Len(layer) > 1
  THEN LET pairIndex == idx + 1
           here == IF pairIndex < Len(layer) THEN <<layer[pairIndex + 1]>> ELSE <<>>
       IN here \o MerklePathRightOnly(PairLayer(layer, 0), idx \div 2)
  ELSE <<>>

RECURSIVE MerklePath(_, _)
\* The while loop of computeControlBlockForIndex: the sibling recorded at
\* each level for the node at 0-based position idx, leaf to root.
MerklePath(layer, idx) ==
  IF Len(layer) > 1
  THEN LET nextLayer == PairLayer(layer, 0)
           pairIndex == IF idx % 2 = 0 THEN idx + 1 ELSE idx - 1
           here == IF pairIndex < Len(layer) THEN <<layer[pairIndex + 1]>> ELSE <<>>
       IN here \o MerklePath(nextLayer, idx \div 2)
  ELSE <<>>

\* Variant of computeControlBlockForIndex that keeps the prefix byte in the
\* internal key (slice(0, 33) for slice(1, 33)).
computeControlBlockKeepPrefix(internalPubkeyFull, scriptLeaves, targetIndex) ==
  IF Len(internalPubkeyFull) # 33
  THEN Thrown("internalPubkeyFull must be 33-byte compressed public key")
  ELSE LET parity == IF internalPubkeyFull[1] = 3 THEN 1 ELSE 0
           leafHashes == [i \in 1..Len(scriptLeaves) |-> tapLeafHash(scriptLeaves[i])]
       IN Returned(ConcatAll(<< <<BitOr(LeafVersion, parity)>>, internalPubkeyFull >>
                             \o (IF Len(leafHashes) = 1 THEN <<>>
                                 ELSE MerklePath(leafHashes, targetIndex))))

computeControlBlockForIndex(internalPubkeyFull, scriptLeaves, targetIndex) ==
  IF Len(internalPubkeyFull) # 33
  THEN Thrown("internalPubkeyFull must be 33-byte compressed public key")
  ELSE LET internalX == Slice(internalPubkeyFull, 1, 33)
           parity == IF internalPubkeyFull[1] = 3 THEN 1 ELSE 0
           leafHashes == [i \in 1..Len(scriptLeaves) |-> tapLeafHash(scriptLeaves[i])]
       IN IF Len(leafHashes) = 1
          THEN Returned(ConcatAll(<< <<BitOr(LeafVersion, parity)>>, internalX >>))
          ELSE Returned(ConcatAll(<< <<BitOr(LeafVersion, parity)>>, internalX >>
                                  \o MerklePath(leafHashes, targetIndex)))

(***************************************************************************)
(* EC engine (tiny-secp256k1), on y^2 = x^3 + 7 over F_FieldPrime, a group *)
(* of prime order CurveOrder.  Points P and -P share their x coordinate    *)
(* and differ in the parity of y, as on secp256k1.                         *)
(***************************************************************************)
FieldPrime == 43

CurveOrder == 31

Infinity == [inf |-> TRUE, x |-> 0, y |-> 0]

Affine(x, y) == [inf |-> FALSE, x |-> x, y |-> y]

Generator == Affine(2, 12)

FieldInv(a) == CHOOSE b \in 1..(FieldPrime - 1) : (a * b) % FieldPrime = 1

OnCurve(x, y) == (y * y) % FieldPrime = (x * x * x + 7) % FieldPrime

PointNeg(p) == IF p.inf THEN p ELSE Affine(p.x, (FieldPrime - p.y) % FieldPrime)

PointAdd(p, q) ==
  IF p.inf THEN q
  ELSE IF q.inf THEN p
  ELSE IF p.x = q.x /\ (p.y + q.y) % FieldPrime = 0 THEN Infinity
  ELSE LET lam == IF p.x = q.x
                  THEN (3 * p.x * p.x * FieldInv((2 * p.y) % FieldPrime)) % FieldPrime
                  ELSE (((q.y - p.y) % FieldPrime)
                        * FieldInv((q.x - p.x) % FieldPrime)) % FieldPrime
           x3 == (lam * lam - p.x - q.x) % FieldPrime
           y3 == (lam * (p.x - x3) - p.y) % FieldPrime
       IN Affine(x3, y3)

\* k * Generator for every scalar k.
ScalarBase[k \in 0..(CurveOrder - 1)] ==
  IF k = 0 THEN Infinity ELSE PointAdd(ScalarBase[k - 1], Generator)

\* A 32-byte buffer read as a scalar.  Private keys are below the order; a
\* digest is reduced into the scalar range of the scaled-down curve.
ScalarOf(b) == BytesMod(b, CurveOrder)

isPrivate(b) ==
  /\ Len(b) = 32
  /\ b # Zeros(32)
  /\ BufferCompare(b, Encode32(CurveOrder)) = -1

\* 33-byte compressed encoding: prefix 0x02 (even y) or 0x03 (odd y), then x.
Compress(p) == <<2 + (p.y % 2)>> \o Encode32(p.x)

Null == [null |-> TRUE]

\* ecc.pointFromScalar(d, true)
pointFromScalar(d) ==
  IF ScalarOf(d) = 0 THEN Null ELSE Compress(ScalarBase[ScalarOf(d)])

\* ecc.privateAdd(d, tweak): (d + tweak) mod n, null when the sum is zero.
privateAdd(d, tweak) ==
  LET sum == (ScalarOf(d) + ScalarOf(tweak)) % CurveOrder
  IN IF sum = 0 THEN Null ELSE Encode32(sum)

\* ecc.isXOnlyPoint(x)
isXOnlyPoint(xb) ==
  /\ Len(xb) = 32
  /\ BufferCompare(xb, Encode32(FieldPrime)) = -1
  /\ \E y \in 0..(FieldPrime - 1) : OnCurve(BytesMod(xb, FieldPrime), y)

\* The point with the given x coordinate and even y (BIP-340 lift_x).
LiftX(xb) ==
  LET x == BytesMod(xb, FieldPrime)
  IN Affine(x, CHOOSE y \in 0..(FieldPrime - 1) : OnCurve(x, y) /\ y % 2 = 0)

\* ecc.xOnlyPointAddTweak(x, tweak): lift_x(x) + tweak * G.
xOnlyPointAddTweak(xb, tweak) ==
  IF ~isXOnlyPoint(xb) THEN Null
  ELSE LET q == PointAdd(LiftX(xb), ScalarBase[ScalarOf(tweak)])
       IN IF q.inf THEN Null
          ELSE [null |-> FALSE, parity |-> q.y % 2, xOnlyPubkey |-> Encode32(q.x)]

\* Output-key derivation on the public side (bitcoinjs-lib tweakKey, used by
\* payments.p2tr for the address).
tweakKey(internalX, merkleRoot) ==
  xOnlyPointAddTweak(internalX, taggedHash("TapTweak", internalX \o merkleRoot))

(***************************************************************************)
(* Private-key tweak.                                                      *)
(***************************************************************************)
\* Variant of tweakPrivateKey that, when the sum is invalid, goes on with the
\* untweaked scalar instead of failing.
tweakPrivateKeyFallingBack(privKey32, internalPubkeyX, merkleRoot) ==
  IF Len(privKey32) # 32 THEN Thrown("privKey must be 32 bytes")
  ELSE IF Len(internalPubkeyX) # 32 THEN Thrown("internalPubkeyX must be 32 bytes")
  ELSE LET t == taggedHash("TapTweak", ConcatAll(<<internalPubkeyX, merkleRoot>>))
           ok == privateAdd(privKey32, t)
           tweaked == IF ok = Null THEN privKey32 ELSE ok
           tweakedPub == pointFromScalar(tweaked)
       IN Returned([tweakedPriv |-> tweaked, tweakedPub |-> tweakedPub,
                    tweakedX |-> Slice(tweakedPub, 1, 33),
                    parity |-> IF tweakedPub[1] = 3 THEN 1 ELSE 0])

tweakPrivateKey(privKey32, internalPubkeyX, merkleRoot) ==
  IF Len(privKey32) # 32 THEN Thrown("privKey must be 32 bytes")
  ELSE IF Len(internalPubkeyX) # 32 THEN Thrown("internalPubkeyX must be 32 bytes")
  ELSE LET t == taggedHash("TapTweak", ConcatAll(<<internalPubkeyX, merkleRoot>>))
           ok == privateAdd(privKey32, t)
       IN IF ok = Null THEN Thrown("tweak resulted in invalid private key (unlikely)")
          ELSE LET tweaked == ok
                   tweakedPub == pointFromScalar(tweaked)
               IN IF tweakedPub = Null THEN Thrown("failed to compute tweaked pubkey")
                  ELSE Returned([tweakedPriv |-> tweaked, tweakedPub |-> tweakedPub,
                                 tweakedX |-> Slice(tweakedPub, 1, 33),
                                 parity |-> IF tweakedPub[1] = 3 THEN 1 ELSE 0])

(***************************************************************************)
(* Scripts (bitcoin.script.compile, bitcoin.script.number.encode).         *)
(***************************************************************************)
OP_CHECKSIG == 172

OP_CHECKSIGADD == 186

OP_NUMEQUAL == 156

OP_CHECKLOCKTIMEVERIFY == 177

OP_DROP == 117

\* bitcoin.script.number.encode(n) for 0 <= n < 32768: minimal little-endian.
ScriptNumEncode(n) ==
  IF n = 0 THEN <<>>
  ELSE IF n < 128 THEN <<n>>
  ELSE IF n < 256 THEN <<n, 0>>
  ELSE <<n % 256, n \div 256>>

\* How bitcoin.script.compile writes a Buffer chunk: the minimal opcode for
\* an empty buffer or a single byte 1..16, a length-prefixed push otherwise.
PushData(buf) ==
  IF Len(buf) = 0 THEN <<0>>
  ELSE IF Len(buf) = 1 /\ buf[1] >= 1 /\ buf[1] <= 16 THEN <<80 + buf[1]>>
  ELSE <<Len(buf)>> \o buf

\* pubkeys.map(k => (k.length === 33 ? k.slice(1, 33) : k))
XOnlyOf(k) == IF Len(k) = 33 THEN Slice(k, 1, 33) ELSE k

ThresholdLeaf(xonly) ==
  PushData(xonly[1]) \o <<OP_CHECKSIG>>
  \o PushData(xonly[2]) \o <<OP_CHECKSIGADD>>
  \o PushData(xonly[3]) \o <<OP_CHECKSIGADD>>
  \o PushData(ScriptNumEncode(2)) \o <<OP_NUMEQUAL>>

TimelockLeaf(lockHeight, xonly) ==
  PushData(ScriptNumEncode(lockHeight)) \o <<OP_CHECKLOCKTIMEVERIFY, OP_DROP>>
  \o PushData(xonly[1]) \o <<OP_CHECKSIG>>

(***************************************************************************)
(* createTaprootAddress.                                                   *)
(***************************************************************************)
\* An argument that was not passed, or a property that is not set.
Undefined == [undefined |-> TRUE]

NoKey == Undefined

\* A number passed for an optional parameter.
Passed(v) == [undefined |-> FALSE, value |-> v]

\* bitcoin.networks: the part of a network an address depends on.
Regtest == [bech32 |-> "bcrt"]

Testnet == [bech32 |-> "tb"]

DefaultLockDelta == 2000

ensureCompressedPubkey(pub) ==
  IF Len(pub) = 33 THEN Returned(pub)
  ELSE IF Len(pub) = 32 THEN Returned(<<2>> \o pub)
  ELSE Thrown("provide Buffer(33) compressed pubkey or Buffer(32) x-only pubkey")

\* bitcoin.payments.p2tr({internalPubkey, scriptTree}): the output key the
\* address encodes, committing to the codec's own merkle root of the tree.
p2trOutputKey(internalX, leaves) ==
  tweakKey(internalX, tapBranchHash(codecLeafHash(leaves[1]), codecLeafHash(leaves[2])))

\* p2tr.address: the bech32m string of the network's prefix and the output
\* key; not set when the output key cannot be derived.
p2trAddress(internalX, leaves, network) ==
  LET out == p2trOutputKey(internalX, leaves)
  IN IF out = Null THEN Undefined
     ELSE [hrp |-> network.bech32, version |-> 1, program |-> out.xOnlyPubkey]

\* The optional parameters take Undefined for "not passed": network and
\* lockDeltaBlocks then take their defaults.
createTaprootAddress(pubkeys, currentBlockHeight, network, lockDeltaBlocks, internalKeyOptionally) ==
  IF Len(pubkeys) # 3 THEN Thrown("need 3 pubkeys")
  ELSE LET net == IF network = Undefined THEN Testnet ELSE network
           delta == IF lockDeltaBlocks = Undefined THEN DefaultLockDelta
                    ELSE lockDeltaBlocks.value
           lockHeight == currentBlockHeight + delta
           xonly == [i \in 1..3 |-> XOnlyOf(pubkeys[i])]
           leaf1 == ThresholdLeaf(xonly)
           leaf2 == TimelockLeaf(lockHeight, xonly)
           internal == IF internalKeyOptionally # NoKey
                       THEN ensureCompressedPubkey(internalKeyOptionally)
                       ELSE ensureCompressedPubkey(pubkeys[1])
       IN IF internal.kind = "throw" THEN internal
          ELSE LET internalFull == internal.value
                   internalX == Slice(internalFull, 1, 33)
               IN IF ~isXOnlyPoint(internalX) THEN Thrown("Invalid pubkey for p2tr")
                  ELSE Returned([address |-> p2trAddress(internalX, <<leaf1, leaf2>>, net),
                                 internalPubkeyFull |-> internalFull,
                                 internalX |-> internalX,
                                 leaves |-> <<leaf1, leaf2>>,
                                 lockHeight |-> lockHeight,
                                 merkleRoot |-> computeMerkleRoot(<<leaf1, leaf2>>),
                                 scriptTree |-> <<[output |-> leaf1], [output |-> leaf2]>>])

(***************************************************************************)
(* Transactions, sighash and signatures (bitcoinjs-lib Transaction,        *)
(* ecc.signSchnorr).  A sequence number is its four bytes, most            *)
(* significant first.                                                      *)
(***************************************************************************)
SequenceFinal == <<255, 255, 255, 255>>

SequenceLocktime == <<255, 255, 255, 254>>

NoTx == [version |-> 0, locktime |-> 0, ins |-> 0, sequence |-> <<>>, witness |-> <<>>]

\* new bitcoin.Transaction(); version = 2; locktime; addInput(.., sequence):
\* one input.
NewTx(locktime, sequence) ==
  [version |-> 2, locktime |-> locktime, ins |-> 1, sequence |-> sequence,
   witness |-> <<>>]

\* The digest of the fields set on the transaction so far and of the spent
\* scripts passed.
SighashDigest(tx, prevOutScripts) ==
  taggedHash("TapSighash",
             <<tx.version, tx.locktime % 256>> \o tx.sequence \o ConcatAll(prevOutScripts))

\* tx.hashForWitnessV1(0, prevOutScripts, values, SIGHASH_DEFAULT).  The
\* library is not part of the repository: one that guards the call wants a
\* spent script for every input and throws otherwise, one that does not
\* returns the digest of whatever it is given.  The callers leave open which.
hashForWitnessV1(tx, prevOutScripts, guarded) ==
  IF guarded /\ Len(prevOutScripts) # tx.ins
  THEN Thrown("Must supply prevout script and value for all inputs")
  ELSE Returned(SighashDigest(tx, prevOutScripts))

\* ecc.signSchnorr(h, d): 64 bytes, valid for exactly the x-only key of d
\* and the digest h.
signSchnorr(h, d) == Slice(pointFromScalar(d), 1, 33) \o h

verifySchnorr(h, pubX, sig) == Len(sig) = 64 /\ sig = pubX \o h

(***************************************************************************)
(* Spend operations: the transaction each one builds before broadcasting.  *)
(***************************************************************************)
BuildScriptPathTx(taprootInfo, leafIndex, sigs) ==
  LET leafScript == taprootInfo.leaves[leafIndex + 1]
      controlBlock == computeControlBlockForIndex(taprootInfo.internalPubkeyFull,
                                                  taprootInfo.leaves, leafIndex)
  IN IF controlBlock.kind = "throw" THEN controlBlock
     ELSE LET tx == NewTx(0, SequenceFinal)
              witness == sigs \o <<leafScript, controlBlock.value>>
          IN Returned([tx EXCEPT !.witness = witness])

\* Variant of spendCltvLeaf that takes the sighash before locktime and
\* sequence are set on the transaction.
BuildCltvTxSignFirst(taprootInfo, privKey32, guarded) ==
  LET leafScript == taprootInfo.leaves[2]
      controlBlock == computeControlBlockForIndex(taprootInfo.internalPubkeyFull,
                                                  taprootInfo.leaves, 1)
  IN IF controlBlock.kind = "throw" THEN controlBlock
     ELSE LET sighash == hashForWitnessV1(NewTx(0, SequenceFinal), <<leafScript>>, guarded)
              tx == NewTx(taprootInfo.lockHeight, SequenceLocktime)
          IN IF sighash.kind = "throw" THEN sighash
             ELSE LET sig == signSchnorr(sighash.value, privKey32)
                  IN Returned([tx EXCEPT
                                 !.witness = <<sig, leafScript, controlBlock.value>>])

BuildCltvTx(taprootInfo, privKey32, guarded) ==
  LET leafIndex == 1
      leafScript == taprootInfo.leaves[leafIndex + 1]
      controlBlock == computeControlBlockForIndex(taprootInfo.internalPubkeyFull,
                                                  taprootInfo.leaves, leafIndex)
  IN IF controlBlock.kind = "throw" THEN controlBlock
     ELSE LET tx == NewTx(taprootInfo.lockHeight, SequenceLocktime)
              sighash == hashForWitnessV1(tx, <<leafScript>>, guarded)
          IN IF sighash.kind = "throw" THEN sighash
             ELSE LET sig == signSchnorr(sighash.value, privKey32)
                  IN Returned([tx EXCEPT
                                 !.witness = <<sig, leafScript, controlBlock.value>>])

\* Variant of spendKeyPath that takes the sighash over the first leaf, as
\* the script-path spends do.
BuildKeyPathTxWithScript(taprootInfo, internalPrivKey32, guarded) ==
  LET tweaked == tweakPrivateKey(internalPrivKey32, taprootInfo.internalX,
                                 taprootInfo.merkleRoot)
  IN IF tweaked.kind = "throw" THEN tweaked
     ELSE LET tx == NewTx(0, SequenceFinal)
              sighash == hashForWitnessV1(tx, <<taprootInfo.leaves[1]>>, guarded)
          IN IF sighash.kind = "throw" THEN sighash
             ELSE LET sig == signSchnorr(sighash.value, tweaked.value.tweakedPriv)
                  IN Returned([tx EXCEPT !.witness = <<sig>>])

BuildKeyPathTx(taprootInfo, internalPrivKey32, guarded) ==
  LET merkleRoot == taprootInfo.merkleRoot
      internalX == taprootInfo.internalX
      tweaked == tweakPrivateKey(internalPrivKey32, internalX, merkleRoot)
  IN IF tweaked.kind = "throw" THEN tweaked
     ELSE LET tweakedPriv == tweaked.value.tweakedPriv
              tx == NewTx(0, SequenceFinal)
              sighash == hashForWitnessV1(tx, <<>>, guarded)
          IN IF sighash.kind = "throw" THEN sighash
             ELSE LET sig == signSchnorr(sighash.value, tweakedPriv)
                  IN Returned([tx EXCEPT !.witness = <<sig>>])

(***************************************************************************)
(* Evaluation of a leaf script against a witness stack: the last witness   *)
(* element before the script is the top of the stack.                      *)
(***************************************************************************)
ScriptFail == [ok |-> FALSE, stack |-> <<>>]

ScriptNumDecode(b) ==
  IF Len(b) = 0 THEN 0
  ELSE IF Len(b) = 1 THEN b[1]
  ELSE b[1] + 256 * b[2]

CastToBool(b) == \E i \in 1..Len(b) : b[i] # 0

Pop(stack) == SubSeq(stack, 1, Len(stack) - 1)

Top(stack) == stack[Len(stack)]

\* Outcome of checking sig against pubkey: "fail" aborts the script,
\* otherwise 0 or 1 is the amount added to the counter.
SigCheck(ctx, pubkey, sig) ==
  IF Len(pubkey) = 0 THEN "fail"
  ELSE IF Len(sig) = 0 THEN "zero"
  ELSE IF Len(pubkey) = 32 /\ ~verifySchnorr(ctx.msg, pubkey, sig) THEN "fail"
  ELSE "one"

RECURSIVE EvalScript(_, _, _, _)
EvalScript(script, pc, stack, ctx) ==
  IF pc > Len(script) THEN [ok |-> TRUE, stack |-> stack]
  ELSE LET op == script[pc]
       IN IF op = 0 THEN EvalScript(script, pc + 1, stack \o << <<>> >>, ctx)
          ELSE IF op >= 1 /\ op <= 75
          THEN IF pc + op > Len(script) THEN ScriptFail
               ELSE EvalScript(script, pc + op + 1,
                               stack \o <<SubSeq(script, pc + 1, pc + op)>>, ctx)
          ELSE IF op >= 81 /\ op <= 96
          THEN EvalScript(script, pc + 1, stack \o << <<op - 80>> >>, ctx)
          ELSE IF op = OP_CHECKSIG
          THEN IF Len(stack) < 2 THEN ScriptFail
               ELSE LET r == SigCheck(ctx, Top(stack), Top(Pop(stack)))
                    IN IF r = "fail" THEN ScriptFail
                       ELSE EvalScript(script, pc + 1,
                                       Pop(Pop(stack)) \o <<IF r = "one" THEN <<1>> ELSE <<>> >>,
                                       ctx)
          ELSE IF op = OP_CHECKSIGADD
          THEN IF Len(stack) < 3 THEN ScriptFail
               ELSE LET n == ScriptNumDecode(Top(Pop(stack)))
                        r == SigCheck(ctx, Top(stack), Top(Pop(Pop(stack))))
                    IN IF r = "fail" THEN ScriptFail
                       ELSE EvalScript(script, pc + 1,
                                       Pop(Pop(Pop(stack)))
                                       \o <<ScriptNumEncode(n + (IF r = "one" THEN 1 ELSE 0))>>,
                                       ctx)
          ELSE IF op = OP_NUMEQUAL
          THEN IF Len(stack) < 2 THEN ScriptFail
               ELSE EvalScript(script, pc + 1,
                               Pop(Pop(stack))
                               \o <<IF ScriptNumDecode(Top(stack)) = ScriptNumDecode(Top(Pop(stack)))
                                    THEN <<1>> ELSE <<>> >>,
                               ctx)
          ELSE IF op = OP_CHECKLOCKTIMEVERIFY
          THEN IF Len(stack) < 1 THEN ScriptFail
               ELSE IF ScriptNumDecode(Top(stack)) > ctx.locktime \/ ctx.sequence = SequenceFinal
               THEN ScriptFail
               ELSE EvalScript(script, pc + 1, stack, ctx)
          ELSE IF op = OP_DROP
          THEN IF Len(stack) < 1 THEN ScriptFail
               ELSE EvalScript(script, pc + 1, Pop(stack), ctx)
          ELSE ScriptFail

\* The script succeeds when it ends with exactly one true element.
ScriptSatisfied(script, witnessArgs, ctx) ==
  LET r == EvalScript(script, 1, witnessArgs, ctx)
  IN r.ok /\ Len(r.stack) = 1 /\ CastToBool(r.stack[1])

(***************************************************************************)
(* Inputs of the model.                                                    *)
(***************************************************************************)
NumKeys == 3

PrivOf(d) == Encode32(d)

PubOf(d) == pointFromScalar(PrivOf(d))

\* Candidate signer triples (both parities of the first key's point).
SignerSets == {<<1, 2, 3>>, <<6, 7, 8>>}

CallerPubkeys(signers) == [i \in 1..NumKeys |-> PubOf(signers[i])]

\* A key as validatePubkeyHex accepts it: 32 bytes, or 33 bytes with prefix
\* 0x02 or 0x03.
validPubkey(k) == Len(k) = 32 \/ (Len(k) = 33 /\ (k[1] = 2 \/ k[1] = 3))

\* Ways of writing one key: compressed, x-only, one byte short, bad prefix.
KeyForms(d) ==
  {PubOf(d), Slice(PubOf(d), 1, 33), Slice(PubOf(d), 1, 32), <<5>> \o Slice(PubOf(d), 1, 33)}

\* Key lists handed to createTaprootAddress: the signers' keys with at most
\* one key written in another form, and lists of the wrong length.
PubkeyLists ==
  UNION {
    {CallerPubkeys(sg)}
    \cup UNION {{[CallerPubkeys(sg) EXCEPT ![k] = f] : f \in KeyForms(sg[k])}
                 : k \in 1..NumKeys}
    \cup {SubSeq(CallerPubkeys(sg), 1, 2), CallerPubkeys(sg) \o <<PubOf(sg[1])>>}
    : sg \in SignerSets}

InternalKeyOptions ==
  {NoKey, EmptyBuf, PubOf(4), Slice(PubOf(4), 1, 33), Slice(PubOf(4), 1, 32)}

ScriptPool == {<<81>>, <<82>>, <<81, 117>>}

RECURSIVE SeqsUpTo(_, _)
\* All sequences over S of length at most n.
SeqsUpTo(S, n) ==
  IF n = 0 THEN {<<>>}
  ELSE LET shorter == SeqsUpTo(S, n - 1)
       IN shorter \cup {q \o <<e>> : q \in {r \in shorter : Len(r) = n - 1}, e \in S}

LeafSeqs == SeqsUpTo(ScriptPool, MaxLeaves)

NoInfo == Undefined

NoCall == [op |-> "none"]

\* The digest the signers of the threshold leaf sign (the test builds the
\* same skeleton as buildAndBroadcastScriptPathSpend and passes leaf 0).
ThresholdSighash(taprootInfo) ==
  SighashDigest(NewTx(0, SequenceFinal), <<taprootInfo.leaves[1]>>)

SignerSig(taprootInfo, i) == signSchnorr(ThresholdSighash(taprootInfo), PrivOf(privKeys[i]))

\* What a caller may put in a signature slot: a signer's signature, the
\* empty placeholder, a signature one byte short.
SigPool(taprootInfo) ==
  {SignerSig(taprootInfo, i) : i \in 1..NumKeys}
  \cup {<<>>, Slice(SignerSig(taprootInfo, 1), 0, 63)}

(***************************************************************************)
(* The caller and the node: one action per operation.                      *)
(***************************************************************************)
Init ==
  /\ height = 0
  /\ privKeys \in SignerSets
  /\ info = NoInfo
  /\ last = NoCall

\* The outcome of a call the caller is still awaiting.
Pending == [kind |-> "pending"]

SpendOps == {"buildAndBroadcastScriptPathSpend", "spendCltvLeaf", "spendKeyPath"}

SatsPerBtc == 100000000

\* A depositToAddress that has yet to have its block mined.
DepositAwaitsBlock ==
  /\ last.op = "depositToAddress"
  /\ last.stage \in {"sendToAddress", "generate"}

\* rpc.generate(1): the node mines a block, whatever the caller awaits.  The
\* height bound leaves room for the block of a deposit in flight.
Mine ==
  /\ height + (IF DepositAwaitsBlock THEN 1 ELSE 0) < MaxHeight
  /\ height' = height + 1
  /\ UNCHANGED <<privKeys, info, last>>

\* const height = await rpc.getBlockCount(): the node reads its height; the
\* caller goes on when the answer has come.
GetBlockCount ==
  /\ last = NoCall
  /\ info = NoInfo
  /\ last' = [op |-> "getBlockCount", height |-> height, tx |-> NoTx, sent |-> FALSE,
              result |-> Returned(height)]
  /\ UNCHANGED <<height, privKeys, info>>

\* info = createTaprootAddress(pubCompressed, height, network, delta), with
\* the height the node answered.
CreateTaprootAddress ==
  /\ last.op = "getBlockCount"
  /\ info = NoInfo
  /\ \E delta \in 0..MaxDelta :
       LET r == createTaprootAddress(CallerPubkeys(privKeys), last.result.value, Regtest,
                                     Passed(delta), NoKey)
       IN /\ last' = [op |-> "createTaprootAddress", height |-> last.result.value,
                      tx |-> NoTx, sent |-> FALSE, result |-> r]
          /\ info' = IF r.kind = "ok" THEN r.value ELSE info
  /\ UNCHANGED <<height, privKeys>>

\* depositToAddress(rpc, info.address, 1.0) up to its first await: the
\* funding request is with the node.
DepositToAddress ==
  /\ last = NoCall
  /\ info # NoInfo
  /\ height < MaxHeight
  /\ last' = [op |-> "depositToAddress", height |-> height,
              args |-> [address |-> info.address, amountBtc |-> 1],
              stage |-> "sendToAddress", tx |-> NoTx, sent |-> FALSE, result |-> Pending]
  /\ UNCHANGED <<height, privKeys, info>>

\* The node answers sendToAddress: a txid, or an error when there is no
\* address to pay; the caller then asks for a block.
DepositFunded ==
  /\ last.op = "depositToAddress"
  /\ last.stage = "sendToAddress"
  /\ last' = IF last.args.address = Undefined
             THEN [last EXCEPT !.stage = "done", !.result = Thrown("sendToAddress failed")]
             ELSE [last EXCEPT !.stage = "generate"]
  /\ UNCHANGED <<height, privKeys, info>>

\* The node mines the block of await rpcClient.generate(1); the caller then
\* asks for the funding transaction.
DepositMined ==
  /\ last.op = "depositToAddress"
  /\ last.stage = "generate"
  /\ height' = height + 1
  /\ last' = [last EXCEPT !.stage = "getRawTransaction"]
  /\ UNCHANGED <<privKeys, info>>

\* The node answers getRawTransaction.  findIndex gives the output whose
\* scriptPubKey lists the address, or -1 when the node's answer lists it on
\* none; reading the value of vout[-1] then throws, otherwise
\* depositToAddress returns the output.
DepositFetched ==
  /\ last.op = "depositToAddress"
  /\ last.stage = "getRawTransaction"
  /\ \E voutIndex \in -1..1 :
       last' = [last EXCEPT
                  !.stage = "done",
                  !.result =
                     IF voutIndex = -1
                     THEN Thrown("Cannot read properties of undefined (reading 'value')")
                     ELSE Returned([txid |-> "txid", voutIndex |-> voutIndex,
                                    valueSats |-> last.args.amountBtc * SatsPerBtc,
                                    scriptPubKeyHex |-> <<81, 32>> \o last.args.address.program])]
  /\ UNCHANGED <<height, privKeys, info>>

\* Variant of the operations on the aggregate that keeps the arguments of
\* the call on it.
TaprootInfoRemembering(taprootInfo, args) ==
  [f \in DOMAIN taprootInfo \cup {"lastArgs"} |->
     IF f = "lastArgs" THEN args ELSE taprootInfo[f]]

\* The aggregate after buildAndBroadcastScriptPathSpend, spendCltvLeaf,
\* spendKeyPath or computeControlBlockForIndex was handed it: they read
\* leaves, internalPubkeyFull, internalX, merkleRoot and lockHeight, slice
\* and copy the buffers, and assign to no field of it.
TaprootInfoAfter(taprootInfo, args) == taprootInfo

\* The private scalars a caller may hand to spendKeyPath.
KeyPathScalars == {PrivOf(d) : d \in 1..(CurveOrder - 1)}

\* A spend up to its await of rpcClient.sendRawTransaction(raw): a failure
\* while building is the outcome; a built transaction is with the node and
\* the outcome is awaited.
Broadcast(op, built, extra) ==
  last' = [op |-> op, height |-> height, args |-> extra,
           tx |-> IF built.kind = "ok" THEN built.value ELSE NoTx,
           sent |-> built.kind = "ok",
           result |-> IF built.kind = "throw" THEN built ELSE Pending]

BuildAndBroadcastScriptPathSpend ==
  /\ last = NoCall
  /\ info # NoInfo
  /\ \E leafIndex \in 0..1, sigs \in SeqsUpTo(SigPool(info), NumKeys) :
       Broadcast("buildAndBroadcastScriptPathSpend",
                 BuildScriptPathTx(info, leafIndex, sigs),
                 [leafIndex |-> leafIndex, sigs |-> sigs])
  /\ info' = TaprootInfoAfter(info, last'.args)
  /\ UNCHANGED <<height, privKeys>>

SpendCltvLeaf ==
  /\ last = NoCall
  /\ info # NoInfo
  /\ \E i \in 1..NumKeys, guarded \in BOOLEAN :
       Broadcast("spendCltvLeaf", BuildCltvTx(info, PrivOf(privKeys[i]), guarded),
                 [priv |-> PrivOf(privKeys[i])])
  /\ info' = TaprootInfoAfter(info, last'.args)
  /\ UNCHANGED <<height, privKeys>>

SpendKeyPath ==
  /\ last = NoCall
  /\ info # NoInfo
  /\ \E priv \in KeyPathScalars, guarded \in BOOLEAN :
       Broadcast("spendKeyPath", BuildKeyPathTx(info, priv, guarded), [priv |-> priv])
  /\ info' = TaprootInfoAfter(info, last'.args)
  /\ UNCHANGED <<height, privKeys>>

\* The node answers sendRawTransaction and the spend ends: an accepted
\* transaction returns its txid, a refused one throws.  The verdict is the
\* node's own.
SendRawTransactionAnswered ==
  /\ last.op \in SpendOps
  /\ last.result = Pending
  /\ \E accepted \in BOOLEAN :
       last' = [last EXCEPT !.result = IF accepted THEN Returned("txid")
                                       ELSE Thrown("sendRawTransaction failed")]
  /\ UNCHANGED <<height, privKeys, info>>

\* The caller computes the control block of a leaf of the aggregate, as the
\* threshold test does before it spends.
ComputeControlBlock ==
  /\ last = NoCall
  /\ info # NoInfo
  /\ \E targetIndex \in 0..1 :
       last' = [op |-> "computeControlBlockForIndex", height |-> height,
                args |-> [targetIndex |-> targetIndex], tx |-> NoTx, sent |-> FALSE,
                result |-> computeControlBlockForIndex(info.internalPubkeyFull,
                                                       info.leaves, targetIndex)]
  /\ info' = TaprootInfoAfter(info, last'.args)
  /\ UNCHANGED <<height, privKeys>>

\* The caller has the outcome of the call and goes on.
Return ==
  /\ last # NoCall
  /\ last.result # Pending
  /\ last' = NoCall
  /\ UNCHANGED <<height, privKeys, info>>

Next ==
  \/ Mine
  \/ GetBlockCount
  \/ CreateTaprootAddress
  \/ DepositToAddress
  \/ DepositFunded
  \/ DepositMined
  \/ DepositFetched
  \/ BuildAndBroadcastScriptPathSpend
  \/ SpendCltvLeaf
  \/ SpendKeyPath
  \/ SendRawTransactionAnswered
  \/ ComputeControlBlock
  \/ Return

Spec == Init /\ [][Next]_vars

(***************************************************************************)
(* The commitment functions called directly, over bounded inputs.          *)
(***************************************************************************)
PureInit ==
  /\ height = 0
  /\ privKeys = <<1, 2, 3>>
  /\ info = NoInfo
  /\ last = NoCall

CallTapLeafHash ==
  /\ last = NoCall
  /\ \E script \in ScriptPool \cup {ThresholdLeaf([i \in 1..NumKeys |-> XOnlyOf(PubOf(sg[i]))])
                                    : sg \in SignerSets} :
       last' = [op |-> "tapLeafHash", script |-> script, result |-> tapLeafHash(script)]
  /\ UNCHANGED <<height, privKeys, info>>

CallTapBranchHash ==
  /\ last = NoCall
  /\ \E x \in ScriptPool, y \in ScriptPool :
       last' = [op |-> "tapBranchHash", a |-> tapLeafHash(x), b |-> tapLeafHash(y),
                result |-> tapBranchHash(tapLeafHash(x), tapLeafHash(y))]
  /\ UNCHANGED <<height, privKeys, info>>

CallComputeMerkleRoot ==
  /\ last = NoCall
  /\ \E leaves \in LeafSeqs :
       last' = [op |-> "computeMerkleRoot", leaves |-> leaves,
                result |-> Returned(computeMerkleRoot(leaves))]
  /\ UNCHANGED <<height, privKeys, info>>

CallComputeControlBlock ==
  /\ last = NoCall
  /\ \E key \in {PubOf(1), PubOf(2), Slice(PubOf(1), 1, 33)}, leaves \in LeafSeqs :
       \E targetIndex \in 0..(IF Len(leaves) = 0 THEN 0 ELSE Len(leaves) - 1) :
         last' = [op |-> "computeControlBlockForIndex", key |-> key, leaves |-> leaves,
                  targetIndex |-> targetIndex,
                  result |-> computeControlBlockForIndex(key, leaves, targetIndex)]
  /\ UNCHANGED <<height, privKeys, info>>

CallTweakPrivateKey ==
  /\ last = NoCall
  /\ \E d \in 1..(CurveOrder - 1), leaves \in {q \in LeafSeqs : Len(q) \in 1..2} :
       LET internalX == Slice(PubOf(d), 1, 33)
           merkleRoot == computeMerkleRoot(leaves)
       IN last' = [op |-> "tweakPrivateKey", priv |-> PrivOf(d), internalX |-> internalX,
                   merkleRoot |-> merkleRoot,
                   result |-> tweakPrivateKey(PrivOf(d), internalX, merkleRoot)]
  /\ UNCHANGED <<height, privKeys, info>>

CallCreateTaprootAddress ==
  /\ last = NoCall
  /\ \E pubkeys \in PubkeyLists, h \in 0..MaxHeight, network \in {Undefined, Regtest},
        delta \in {Passed(d) : d \in 0..MaxDelta} \cup {Undefined}, internalKey \in InternalKeyOptions :
       last' = [op |-> "createTaprootAddress", pubkeys |-> pubkeys, height |-> h,
                network |-> network, delta |-> delta, internalKey |-> internalKey,
                result |-> createTaprootAddress(pubkeys, h, network, delta, internalKey)]
  /\ UNCHANGED <<height, privKeys, info>>

PureNext ==
  \/ CallTapLeafHash
  \/ CallTapBranchHash
  \/ CallComputeMerkleRoot
  \/ CallComputeControlBlock
  \/ CallTweakPrivateKey
  \/ CallCreateTaprootAddress
  \/ Return

PureSpec == PureInit /\ [][PureNext]_vars

(***************************************************************************)
(* Claims about the spend operations, checked under Spec.                  *)
(***************************************************************************)
\* The transaction of the call in flight was assembled with a witness.
WitnessBuilt == last.tx # NoTx /\ Len(last.tx.witness) > 0

\* The call in flight was refused before any witness was assembled or sent.
RejectedBeforeWitness == last.result.kind = "throw" /\ last.tx = NoTx /\ ~last.sent

\* C1: a timelock-leaf spend requested while the chain height is below the
\* lock height is rejected and no witness is assembled or broadcast; at the
\* lock height or later the witness is built.
C1_TimelockPrecondition ==
  last.op = "spendCltvLeaf" =>
    IF last.height < info.lockHeight THEN RejectedBeforeWitness ELSE WitnessBuilt

\* The signatures of a threshold spend request, and the leaf it names.
ThresholdRequest ==
  last.op = "buildAndBroadcastScriptPathSpend" /\ last.args.leafIndex = 0

\* The signatures a request carries: its non-empty slots.
CarriedSigs(sigs) == {i \in 1..Len(sigs) : Len(sigs[i]) > 0}

\* C2: a threshold spend carrying exactly two signatures, each 64 bytes,
\* yields a built witness; one carrying a single signature, or a signature
\* that is not 64 bytes, is rejected before any witness is assembled.
C2_ThresholdSignatureCount ==
  ThresholdRequest =>
    LET sigs == last.args.sigs
    IN /\ (Cardinality(CarriedSigs(sigs)) = 2 /\ \A i \in CarriedSigs(sigs) : Len(sigs[i]) = 64)
            => WitnessBuilt
       /\ (Cardinality(CarriedSigs(sigs)) = 1 \/ \E i \in CarriedSigs(sigs) : Len(sigs[i]) # 64)
            => RejectedBeforeWitness

\* The request carries the valid signatures of two leaf keys in key order.
TwoSignersInKeyOrder ==
  /\ ThresholdRequest
  /\ \E i \in 1..NumKeys, j \in 1..NumKeys :
       i < j /\ last.args.sigs = <<SignerSig(info, i), SignerSig(info, j)>>

\* The leaf script of the call in flight evaluated on the signature part of
\* its witness (everything before the script and the control block).
WitnessSatisfiesLeaf ==
  LET w == last.tx.witness
  IN ScriptSatisfied(w[Len(w) - 1], SubSeq(w, 1, Len(w) - 2),
                     [msg |-> ThresholdSighash(info), locktime |-> last.tx.locktime,
                      sequence |-> last.tx.sequence])

\* C3: the witness assembled from the valid signatures of any two leaf keys,
\* supplied in key order, makes the threshold leaf script evaluate to true.
C3_ThresholdWitnessSatisfiesScript ==
  TwoSignersInKeyOrder => WitnessBuilt /\ WitnessSatisfiesLeaf

(***************************************************************************)
(* Claims about the commitment functions, checked under PureSpec.          *)
(***************************************************************************)
\* C4: the tweaked private scalar tweakPrivateKey returns for a secret whose
\* point is the internal key (either parity) has a public point whose x
\* coordinate is the output key derived from the public side.
C4_TweakedKeyMatchesOutputKey ==
  (last.op = "tweakPrivateKey" /\ last.result.kind = "ok") =>
    LET out == tweakKey(last.internalX, last.merkleRoot)
    IN out # Null => last.result.value.tweakedX = out.xOnlyPubkey

\* C5: tapLeafHash(script) is the TapLeaf tagged hash of the version byte,
\* the compact size of the script length and the script bytes.
C5_LeafHashPreimage ==
  last.op = "tapLeafHash" =>
    last.result = taggedHash("TapLeaf",
                             <<LeafVersion>> \o CompactSize(Len(last.script)) \o last.script)

\* The siblings a control block carries after its 33-byte head.
ControlBlockPath(cb) ==
  [i \in 1..((Len(cb) - 33) \div 32) |-> SubSeq(cb, 34 + 32 * (i - 1), 33 + 32 * i)]

RECURSIVE FoldPath(_, _)
\* The root a verifier reaches from a leaf hash and a leaf-to-root path.
FoldPath(h, path) ==
  IF path = <<>> THEN h ELSE FoldPath(tapBranchHash(h, Head(path)), Tail(path))

ControlBlockReturned ==
  last.op = "computeControlBlockForIndex" /\ last.result.kind = "ok"

\* C6: for two or more leaves and any target, folding the target's leaf hash
\* with the siblings of its control block, leaf to root, gives the root
\* computeMerkleRoot computes over the same leaves.
C6_ControlBlockProvesMembership ==
  (ControlBlockReturned /\ Len(last.leaves) >= 2) =>
    FoldPath(tapLeafHash(last.leaves[last.targetIndex + 1]),
             ControlBlockPath(last.result.value))
      = computeMerkleRoot(last.leaves)

\* C6 witness: a control block for the last leaf of a three-leaf tree, whose
\* node is propagated unpaired at the first level.
C6_Witness ==
  /\ ControlBlockReturned
  /\ Len(last.leaves) = 3
  /\ last.targetIndex = 2
  /\ Len(ControlBlockPath(last.result.value)) = 1

\* C7: a control block is 1 + 32 + 32 * (recorded siblings) bytes long, 33
\* for one leaf and 65 for two; its first byte is 0xC0 with the parity bit
\* of the internal key's prefix, and the internal x-only key follows.
C7_ControlBlockLayout ==
  ControlBlockReturned =>
    LET cb == last.result.value
        leafHashes == [i \in 1..Len(last.leaves) |-> tapLeafHash(last.leaves[i])]
        siblings == IF Len(leafHashes) = 1 THEN <<>>
                    ELSE MerklePath(leafHashes, last.targetIndex)
    IN /\ Len(cb) = 1 + 32 + 32 * Len(siblings)
       /\ Len(last.leaves) = 1 => Len(cb) = 33
       /\ Len(last.leaves) = 2 => Len(cb) = 65
       /\ cb[1] = (IF last.key[1] = 3 THEN 193 ELSE 192)
       /\ SubSeq(cb, 2, 33) = SubSeq(last.key, 2, 33)

\* C7 witness: a 65-byte control block of a two-leaf tree under an internal
\* key with the odd prefix.
C7_Witness ==
  /\ ControlBlockReturned
  /\ Len(last.leaves) = 2
  /\ last.key[1] = 3
  /\ Len(last.result.value) = 65

\* C8: the root computeMerkleRoot returns is zero-length exactly when there
\* is one leaf; for every other leaf count it is 32 bytes.
C8_RootEmptyIffOneLeaf ==
  (last.op = "computeMerkleRoot" /\ last.result.kind = "ok") =>
    /\ (last.result.value = <<>>) <=> (Len(last.leaves) = 1)
    /\ Len(last.leaves) # 1 => Len(last.result.value) = 32

\* Byte-lexicographic order on buffers of one length.
LexLess(a, b) ==
  \E i \in 1..Len(a) : a[i] < b[i] /\ \A j \in 1..(i - 1) : a[j] = b[j]

\* C9: tapBranchHash does not depend on the order of its arguments and
\* hashes the smaller child first; the root of two leaves is the branch
\* hash of their leaf hashes, whichever leaf comes first.
C9_BranchCommutes ==
  /\ last.op = "tapBranchHash" =>
       /\ last.result = tapBranchHash(last.b, last.a)
       /\ last.result = taggedHash("TapBranch",
                                   IF LexLess(last.b, last.a) THEN last.b \o last.a
                                   ELSE last.a \o last.b)
  /\ (last.op = "computeMerkleRoot" /\ Len(last.leaves) = 2) =>
       /\ last.result.value = tapBranchHash(tapLeafHash(last.leaves[1]),
                                            tapLeafHash(last.leaves[2]))
       /\ last.result.value = computeMerkleRoot(<<last.leaves[2], last.leaves[1]>>)

\* C9 witness: a branch hash whose first argument is the larger child.
C9_Witness ==
  /\ last.op = "tapBranchHash"
  /\ LexLess(last.b, last.a)
  /\ Len(last.result) = 32

\* C10: a call of the commitment pipeline with a malformed key, a key list
\* that is not three keys, or an empty leaf set is rejected and returns no
\* TaprootInfo, root or control block.
C10_InputValidation ==
  /\ last.op = "createTaprootAddress" =>
       ((\/ Len(last.pubkeys) # NumKeys
         \/ \E i \in 1..Len(last.pubkeys) : ~validPubkey(last.pubkeys[i])
         \/ (last.internalKey # NoKey /\ ~validPubkey(last.internalKey)))
        => last.result.kind = "throw")
  /\ (last.op \in {"computeMerkleRoot", "computeControlBlockForIndex"}
      /\ Len(last.leaves) = 0) => last.result.kind = "throw"

(***************************************************************************)
(* Claims about the shape of what the spend operations build, checked      *)
(* under Spec.                                                             *)
(***************************************************************************)
\* The request carries the valid signatures of exactly two distinct leaf
\* keys (in any slots), and nothing else but empty placeholders.
TwoSignersParticipate ==
  /\ ThresholdRequest
  /\ Cardinality(CarriedSigs(last.args.sigs)) = 2
  /\ \E i \in 1..NumKeys, j \in 1..NumKeys :
       /\ i # j
       /\ {last.args.sigs[k] : k \in CarriedSigs(last.args.sigs)}
            = {SignerSig(info, i), SignerSig(info, j)}

\* C12: the witness built for the threshold leaf has exactly five elements,
\* a slot for each of the three keys (a 64-byte signature or a zero-length
\* placeholder), then the leaf script, then the control block, whatever two
\* keys participate.
C12_ThresholdWitnessLayout ==
  (TwoSignersParticipate /\ WitnessBuilt) =>
    LET w == last.tx.witness
    IN /\ Len(w) = 5
       /\ \A k \in 1..NumKeys : Len(w[k]) \in {0, 64}
       /\ w[4] = info.leaves[1]
       /\ w[5] = computeControlBlockForIndex(info.internalPubkeyFull, info.leaves, 0).value

TimelockSpendBuilt == last.op = "spendCltvLeaf" /\ last.tx # NoTx

\* C13: a transaction built by spendCltvLeaf has locktime equal to the
\* aggregate's lockHeight, an input sequence below the final sentinel, and
\* the witness [64-byte signature, leaf 1, control block of leaf 1], the
\* signature being over the sighash of the transaction with that locktime
\* and sequence.
C13_TimelockTxShape ==
  TimelockSpendBuilt =>
    LET tx == last.tx
        w == tx.witness
    IN /\ tx.locktime = info.lockHeight
       /\ BufferCompare(tx.sequence, SequenceFinal) = -1
       /\ Len(w) = 3
       /\ Len(w[1]) = 64
       /\ w[2] = info.leaves[2]
       /\ w[3] = computeControlBlockForIndex(info.internalPubkeyFull, info.leaves, 1).value
       /\ w[1] = signSchnorr(
                   SighashDigest([version |-> 2, locktime |-> info.lockHeight,
                                  ins |-> 1, sequence |-> tx.sequence,
                                  witness |-> <<>>],
                                 <<info.leaves[2]>>),
                   last.args.priv)

\* C13 witness: a timelock spend built for a lock height above zero.
C13_Witness == TimelockSpendBuilt /\ info.lockHeight > 0 /\ Len(last.tx.witness) = 3

KeyPathSpendBuilt == last.op = "spendKeyPath" /\ last.tx # NoTx

\* C14: the witness spendKeyPath produces is the 64-byte signature alone,
\* with no leaf script and no control block, and the signature is over the
\* sighash computed with an empty list of spent scripts.
C14_KeyPathWitnessShape ==
  KeyPathSpendBuilt =>
    LET w == last.tx.witness
        tweaked == tweakPrivateKey(last.args.priv, info.internalX, info.merkleRoot)
    IN /\ Len(w) = 1
       /\ Len(w[1]) = 64
       /\ w[1] = signSchnorr(SighashDigest(NewTx(0, SequenceFinal), <<>>),
                             tweaked.value.tweakedPriv)

\* C14 witness: a key-path spend that was built and sent.
C14_Witness == KeyPathSpendBuilt /\ last.sent /\ Len(last.tx.witness) = 1

\* The key-path request whose scalar and TapTweak sum to an invalid scalar.
TweakInvalid ==
  /\ last.op = "spendKeyPath"
  /\ privateAdd(last.args.priv,
                taggedHash("TapTweak", ConcatAll(<<info.internalX, info.merkleRoot>>))) = Null

\* C15: when privateAdd reports the tweaked scalar invalid, tweakPrivateKey
\* fails with the invalid-tweak error and yields no key material, and the
\* enclosing spendKeyPath builds and signs nothing and broadcasts nothing.
C15_InvalidTweakIsTerminal ==
  TweakInvalid =>
    /\ tweakPrivateKey(last.args.priv, info.internalX, info.merkleRoot)
         = Thrown("tweak resulted in invalid private key (unlikely)")
    /\ last.result = Thrown("tweak resulted in invalid private key (unlikely)")
    /\ last.tx = NoTx
    /\ ~last.sent

\* C15 witness: a key-path spend was asked with such a scalar and failed.
C15_Witness == TweakInvalid /\ last.result.kind = "throw"

TaprootInfoFields ==
  {"address", "internalPubkeyFull", "internalX", "leaves", "lockHeight", "merkleRoot",
   "scriptTree"}

\* The aggregate has the fields construction gave it and each holds what
\* construction derives from the three public keys and the lock height, so
\* none holds a private scalar.
\* What construction returns for each signer set and lock height.
Constructed[sg \in SignerSets, lockHeight \in 0..(MaxHeight + MaxDelta)] ==
  createTaprootAddress(CallerPubkeys(sg), lockHeight, Regtest, Passed(0), NoKey)

NoScalarStored ==
  /\ DOMAIN info = TaprootInfoFields
  /\ info = Constructed[privKeys, info.lockHeight].value

\* C16: once constructed, the aggregate is changed by no later step (spends
\* of either path and control-block computations, whatever their outcome),
\* and it holds no private scalar, internal or tweaked.
C16_TaprootInfoReadOnly ==
  /\ [](info # NoInfo => NoScalarStored)
  /\ [][info # NoInfo => info' = info]_vars

\* C16 witness: a spend on the aggregate has failed.
C16_Witness ==
  /\ info # NoInfo
  /\ last.op \in {"buildAndBroadcastScriptPathSpend", "spendCltvLeaf", "spendKeyPath"}
  /\ last.result.kind = "throw"
  /\ NoScalarStored

(***************************************************************************)
(* Claim about how failures reach the caller, checked under PureSpec.      *)
(***************************************************************************)
CoreOperationCalled ==
  last.op \in {"createTaprootAddress", "computeControlBlockForIndex", "tweakPrivateKey"}

\* C11: a failure of createTaprootAddress, computeControlBlockForIndex or
\* tweakPrivateKey reaches the caller as a returned result and never as a
\* thrown error, so the caller's next request runs as if nothing had failed.
C11_ErrorsAreValues == CoreOperationCalled => last.result.kind # "throw"

====
